---- MODULE Spec2Model ----
(***************************************************************************)
(* Fuel-Station-Tracker: the trip planner of routing/views.py.             *)
(*                                                                         *)
(* Numbers.  The code computes in binary floating point; the model         *)
(* computes in exact integers of fixed units:                              *)
(*   distance           1 unit = 0.01 mile   (the resolution of round(,2)) *)
(*   coordinates        1 unit = 0.01 mile on a flat chart on which one    *)
(*                      degree is 69 miles (the constant of _route_bbox)   *)
(*   price              1 unit = 0.001 $/gallon (the resolution of         *)
(*                      round(price, 3))                                   *)
(*   gallons            1 unit = 0.001 gallon                              *)
(*   cost, score        1 unit = 0.000001 $                                *)
(* Floating-point representation error is outside the model.               *)
(***************************************************************************)
EXTENDS Integers, Sequences, FiniteSets, TLC

VARIABLES
    db,         \* the FuelStation table: a sequence of rows
    memo,       \* the lru_cache of _load_station_rows
    geocoder,   \* what geocode_address_opencage answers, per address
    router,     \* what get_route answers
    cache,      \* django.core.cache: key -> cached plan
    request,    \* the inputs of the last request to /route/
    response,   \* the response to it
    calls,      \* the collaborators that request used
    nreq,       \* number of requests served
    filled,     \* key -> the payload returned by the request that filled the cache
    seen,       \* request -> the successful payloads it has received
    call,       \* the function call under study and its arguments
    result,     \* what that call returned
    pc,         \* per worker thread: its position in _build_trip_plan
    loc         \* per worker thread: the local variables of its plan

vars == <<db, memo, geocoder, router, cache, request, response, calls, nreq,
          filled, seen, call, result, pc, loc>>

----------------------------------------------------------------------------
(* Units *)

\* 0.01 mile: distances are reported with round(x, 2)
Mile == 100
\* one degree of latitude is taken as 69.0 miles (lat_pad = padding_miles / 69.0)
Degree == 69 * Mile
\* 0.001 $/gallon expressed in cost units (prices are reported with round(x, 3))
Dollar == 1000000
Cent == Dollar \div 100

(* Program constants, views.py:13-18 *)
MPG == 10
MAX_RANGE_MILES == 500 * Mile
CORRIDOR_RADIUS_MILES == 25 * Mile
WAYPOINT_WINDOWS_MILES == <<60 * Mile, 120 * Mile, 200 * Mile, 320 * Mile>>
\* 0.04 $ per mile of detour = 400 cost units per 0.01 mile
DETOUR_WEIGHT == (4 * Dollar) \div (100 * Mile)
\* 0.002 $ per mile off the marker = 20 cost units per 0.01 mile
WAYPOINT_WEIGHT == (2 * Dollar) \div (1000 * Mile)
\* the backtrack tolerance of _select_station (previous_marker - 40.0)
BACKTRACK_MILES == 40 * Mile

None == <<>>

Abs(n) == IF n < 0 THEN -n ELSE n
Min2(a, b) == IF a <= b THEN a ELSE b
Max2(a, b) == IF a >= b THEN a ELSE b
SetMin(S) == CHOOSE m \in S : \A n \in S : m <= n
SetMax(S) == CHOOSE m \in S : \A n \in S : m >= n

\* Python's round(x, k) on a value x = n / unit: the nearest multiple of unit,
\* a tie going to the even multiple.  The result is in multiples of unit.
PyRound(n, unit) ==
    LET q == n \div unit
        r == n % unit
    IN  IF 2 * r < unit THEN q
        ELSE IF 2 * r > unit THEN q + 1
        ELSE IF q % 2 = 0 THEN q ELSE q + 1

----------------------------------------------------------------------------
(* Waypoint planner *)

RECURSIVE MarkerLoop(_, _, _)
MarkerLoop(marker, markers, total_miles) ==
    IF marker < total_miles
    THEN MarkerLoop(marker + MAX_RANGE_MILES, Append(markers, marker), total_miles)
    ELSE markers

RECURSIVE MarkerLoopInclusive(_, _, _)
MarkerLoopInclusive(marker, markers, total_miles) ==
    IF marker <= total_miles
    THEN MarkerLoopInclusive(marker + MAX_RANGE_MILES, Append(markers, marker),
                             total_miles)
    ELSE markers

\* the loop test written marker <= total_miles
BuildMarkersInclusive(total_miles, start_with_full_tank) ==
    IF total_miles <= 0 THEN <<>>
    ELSE MarkerLoopInclusive(IF start_with_full_tank THEN MAX_RANGE_MILES ELSE 0,
                             <<>>, total_miles)

\* the full tank forgotten: the first marker always at 0
BuildMarkersIgnoreTank(total_miles, start_with_full_tank) ==
    IF total_miles <= 0 THEN <<>> ELSE MarkerLoop(0, <<>>, total_miles)

_build_waypoint_markers(total_miles, start_with_full_tank) ==
    IF total_miles <= 0 THEN <<>>
    ELSE MarkerLoop(IF start_with_full_tank THEN MAX_RANGE_MILES ELSE 0,
                    <<>>, total_miles)

----------------------------------------------------------------------------
(* Geometry utilities.  Points are <<lat, lon>> on the flat chart. *)

\* Great-circle distance is replaced by the chart's own metric (the sum of the
\* north-south and the east-west separation): non-negative, symmetric, zero
\* only between equal points.  Along a parallel it is the separation itself.
_haversine_miles(lat1, lon1, lat2, lon2) == Abs(lat2 - lat1) + Abs(lon2 - lon1)

RECURSIVE CumulativeLoop(_, _, _)
CumulativeLoop(route_points, idx, cumulative) ==
    IF idx > Len(route_points) THEN cumulative
    ELSE CumulativeLoop(route_points, idx + 1,
            Append(cumulative,
                   cumulative[Len(cumulative)]
                     + _haversine_miles(route_points[idx - 1][1], route_points[idx - 1][2],
                                        route_points[idx][1], route_points[idx][2])))

_build_cumulative_miles(route_points) ==
    IF route_points = <<>> THEN <<0>>
    ELSE CumulativeLoop(route_points, 2, <<0>>)

\* <<lat_min, lat_max, lon_min, lon_max>>.  On the chart a mile of padding is
\* the same number of units in latitude and in longitude.
_route_bbox(route_points, padding_miles) ==
    LET lats == {route_points[i][1] : i \in 1..Len(route_points)}
        lons == {route_points[i][2] : i \in 1..Len(route_points)}
    IN  <<SetMin(lats) - padding_miles, SetMax(lats) + padding_miles,
          SetMin(lons) - padding_miles, SetMax(lons) + padding_miles>>

----------------------------------------------------------------------------
(* Station dataset.  A row of the table is                                 *)
(*   [name, retail_price, latitude, longitude]                             *)
(* where latitude and longitude are <<>> (NULL) or <<value>>.  name stands *)
(* for the row's name, city and state, which planning only copies.         *)

IsEligibleRow(row) == row.latitude # None /\ row.longitude # None

RowToStation(row) ==
    [name |-> row.name, price |-> row.retail_price,
     latitude |-> row.latitude[1], longitude |-> row.longitude[1]]

\* the body of _load_station_rows: one query, evaluated once by the for loop
QueryStationRows(table) ==
    LET rows == SelectSeq(table, IsEligibleRow)
    IN  [i \in 1..Len(rows) |-> RowToStation(rows[i])]

----------------------------------------------------------------------------
(* Corridor indexer *)

RECURSIVE RangeLoop(_, _, _, _)
RangeLoop(idx, stop, stride, acc) ==
    IF idx >= stop THEN acc ELSE RangeLoop(idx + stride, stop, stride, Append(acc, idx))

\* 0-based indexes, as in the code
SampledIndexes(route_points) ==
    LET n == Len(route_points)
        stride == Max2(1, n \div 800)
        sampled == RangeLoop(0, n, stride, <<>>)
    IN  IF sampled[Len(sampled)] # n - 1 THEN Append(sampled, n - 1) ELSE sampled

\* best == [inf, distance, index]: inf is TRUE while best_distance is float("inf")
RECURSIVE NearestLoop(_, _, _, _, _)
NearestLoop(station, route_points, sampled_indexes, k, best) ==
    IF k > Len(sampled_indexes) THEN best
    ELSE LET idx == sampled_indexes[k]
             distance == _haversine_miles(station.latitude, station.longitude,
                                          route_points[idx + 1][1], route_points[idx + 1][2])
         IN  NearestLoop(station, route_points, sampled_indexes, k + 1,
                 IF best.inf \/ distance < best.distance
                 THEN [inf |-> FALSE, distance |-> distance, index |-> idx]
                 ELSE best)

\* the corridor test left to the bounding box
InCorridorUnchecked(best_distance) == TRUE

InCorridor(best_distance) == best_distance <= CORRIDOR_RADIUS_MILES

RECURSIVE MapLoop(_, _, _, _, _, _)
MapLoop(candidates, route_points, cumulative, sampled_indexes, k, mapped) ==
    IF k > Len(candidates) THEN mapped
    ELSE LET station == candidates[k]
             best == NearestLoop(station, route_points, sampled_indexes, 1,
                                 [inf |-> TRUE, distance |-> 0, index |-> 0])
         IN  MapLoop(candidates, route_points, cumulative, sampled_indexes, k + 1,
                 IF ~best.inf /\ InCorridor(best.distance)
                 THEN Append(mapped,
                        [name |-> station.name, price |-> station.price,
                         latitude |-> station.latitude, longitude |-> station.longitude,
                         route_mile |-> cumulative[best.index + 1],
                         detour_miles |-> best.distance])
                 ELSE mapped)

\* station_rows is what _load_station_rows() returned to this call
_map_stations_to_route(route_points, cumulative, station_rows) ==
    IF route_points = <<>> THEN <<>>
    ELSE LET bbox == _route_bbox(route_points, CORRIDOR_RADIUS_MILES + 20 * Mile)
             InBox(station) ==
                 /\ bbox[1] <= station.latitude /\ station.latitude <= bbox[2]
                 /\ bbox[3] <= station.longitude /\ station.longitude <= bbox[4]
             candidates == SelectSeq(station_rows, InBox)
         IN  IF candidates = <<>> THEN <<>>
             ELSE MapLoop(candidates, route_points, cumulative,
                          SampledIndexes(route_points), 1, <<>>)

----------------------------------------------------------------------------
(* Stop selector *)

\* price is in 0.001 $: one unit of price is Dollar / 1000 units of score
_score_station(station, marker) ==
    station.price * (Dollar \div 1000)
      + station.detour_miles * DETOUR_WEIGHT
      + Abs(station.route_mile - marker) * WAYPOINT_WEIGHT

\* Python's min(candidates, key=...): the first element of minimal key
RECURSIVE MinLoop(_, _, _, _)
MinLoop(candidates, marker, k, best) ==
    IF k > Len(candidates) THEN best
    ELSE MinLoop(candidates, marker, k + 1,
            IF _score_station(candidates[k], marker) < _score_station(best, marker)
            THEN candidates[k] ELSE best)

MinByScore(candidates, marker) == MinLoop(candidates, marker, 2, candidates[1])

InWindow(station, marker, previous_marker, window) ==
    /\ Abs(station.route_mile - marker) <= window
    /\ station.route_mile >= previous_marker - BACKTRACK_MILES

WindowCandidates(mapped_stations, marker, previous_marker, window) ==
    LET Keep(station) == InWindow(station, marker, previous_marker, window)
    IN  SelectSeq(mapped_stations, Keep)

\* the for loop over WAYPOINT_WINDOWS_MILES and what follows it
RECURSIVE WindowLoop(_, _, _, _)
WindowLoop(mapped_stations, marker, previous_marker, w) ==
    IF w > Len(WAYPOINT_WINDOWS_MILES)
    THEN LET Forward(station) == station.route_mile >= previous_marker - BACKTRACK_MILES
             forward == SelectSeq(mapped_stations, Forward)
         IN  MinByScore(IF forward = <<>> THEN mapped_stations ELSE forward, marker)
    ELSE LET candidates == WindowCandidates(mapped_stations, marker, previous_marker,
                                            WAYPOINT_WINDOWS_MILES[w])
         IN  IF candidates # <<>> THEN MinByScore(candidates, marker)
             ELSE WindowLoop(mapped_stations, marker, previous_marker, w + 1)

\* the windows skipped: the best score over the whole corridor
SelectBestOverall(mapped_stations, marker, previous_marker) ==
    IF mapped_stations = <<>> THEN None
    ELSE MinByScore(mapped_stations, marker)

\* the fallback on the stations ahead skipped: when no window has a
\* candidate, the best score over the whole corridor
SelectWholeSetFallback(mapped_stations, marker, previous_marker) ==
    IF mapped_stations = <<>> THEN None
    ELSE IF \E w \in 1..Len(WAYPOINT_WINDOWS_MILES) :
                WindowCandidates(mapped_stations, marker, previous_marker,
                                 WAYPOINT_WINDOWS_MILES[w]) # <<>>
    THEN WindowLoop(mapped_stations, marker, previous_marker, 1)
    ELSE MinByScore(mapped_stations, marker)

\* no fallback at all: no station when no window has a candidate
SelectWindowOnly(mapped_stations, marker, previous_marker) ==
    IF \E w \in 1..Len(WAYPOINT_WINDOWS_MILES) :
           WindowCandidates(mapped_stations, marker, previous_marker,
                            WAYPOINT_WINDOWS_MILES[w]) # <<>>
    THEN WindowLoop(mapped_stations, marker, previous_marker, 1)
    ELSE None

_select_station(mapped_stations, marker, previous_marker) ==
    IF mapped_stations = <<>> THEN None
    ELSE WindowLoop(mapped_stations, marker, previous_marker, 1)

----------------------------------------------------------------------------
(* Request inputs.  A raw input is                                         *)
(*   [kind |-> "none"]                      the parameter is absent        *)
(*   [kind |-> "str",  text |-> tokens]     a string, as a token sequence  *)
(*   [kind |-> "list", items |-> <<a, b>>]  a JSON array of the body       *)
(* A token is a string: " " is white space, every other token is a run of  *)
(* characters without white space.                                         *)

Missing == [kind |-> "none"]
Str(text) == [kind |-> "str", text |-> text]
List(items) == [kind |-> "list", items |-> items]

RECURSIVE LStrip(_)
LStrip(text) ==
    IF text # <<>> /\ Head(text) = " " THEN LStrip(Tail(text)) ELSE text

RECURSIVE RStrip(_)
RStrip(text) ==
    IF text # <<>> /\ text[Len(text)] = " "
    THEN RStrip(SubSeq(text, 1, Len(text) - 1)) ELSE text

\* str.strip()
Strip(text) == RStrip(LStrip(text))

\* json.dumps of a two-element array of numbers
JsonText(items) == "[" \o ToString(items[1]) \o ", " \o ToString(items[2]) \o "]"
\* the text "a,b"
CommaText(items) == ToString(items[1]) \o "," \o ToString(items[2])

\* The number pairs whose texts the requests of the model can carry.
\* <<lon, lat>> unless said otherwise.
Origin == <<-120 * Degree, 35 * Degree>>
East(miles) == <<Origin[1] + miles, Origin[2]>>
Abroad == <<2 * Degree, 48 * Degree>>
KnownPairs ==
    {Origin, East(1), East(MAX_RANGE_MILES), East(MAX_RANGE_MILES + 1), Abroad,
     <<Origin[2], Origin[1]>>}

\* json.loads / the split at "," : the pair a token is the text of, or None
ParseJsonToken(token) ==
    IF \E p \in KnownPairs : JsonText(p) = token
    THEN CHOOSE p \in KnownPairs : JsonText(p) = token
    ELSE None
ParseCommaToken(token) ==
    IF \E p \in KnownPairs : CommaText(p) = token
    THEN CHOOSE p \in KnownPairs : CommaText(p) = token
    ELSE None

\* [lon, lat] or None
_parse_coords(value) ==
    IF value.kind = "none" THEN None
    ELSE IF value.kind = "list"
    THEN IF Len(value.items) >= 2 THEN <<value.items[1], value.items[2]>> ELSE None
    ELSE LET text == Strip(value.text)
         IN  IF text = <<>> THEN None
             ELSE IF Len(text) = 1 /\ ParseJsonToken(text[1]) # None
             THEN ParseJsonToken(text[1])
             ELSE IF Len(text) = 1 /\ ParseCommaToken(text[1]) # None
             THEN LET a == ParseCommaToken(text[1])[1]
                      b == ParseCommaToken(text[1])[2]
                  IN  IF Abs(a) > 90 * Degree /\ Abs(b) <= 90 * Degree THEN <<a, b>>
                      ELSE IF Abs(b) > 90 * Degree /\ Abs(a) <= 90 * Degree THEN <<b, a>>
                      ELSE <<a, b>>
             ELSE None

\* the bounding box test dropped
AnywhereIsUs(lon, lat) == TRUE

_is_probably_us(lon, lat) ==
    /\ -((1799 * Degree) \div 10) <= lon /\ lon <= -(66 * Degree)
    /\ 18 * Degree <= lat /\ lat <= 72 * Degree

\* geocode_address_opencage against the table geo: address -> [lon, lat] or None
GeocodeAddress(geo, raw_value) ==
    IF raw_value.kind # "str" \/ Strip(raw_value.text) = <<>> THEN None
    ELSE IF Strip(raw_value.text) \in DOMAIN geo THEN geo[Strip(raw_value.text)]
    ELSE None

\* whether _resolve_location reaches the geocoder for this input
NeedsGeocoder(raw_value) ==
    /\ _parse_coords(raw_value) = None
    /\ raw_value.kind = "str"
    /\ Strip(raw_value.text) # <<>>

_resolve_location(geo, raw_value) ==
    IF _parse_coords(raw_value) # None THEN _parse_coords(raw_value)
    ELSE IF raw_value.kind # "str" \/ Strip(raw_value.text) = <<>> THEN None
    ELSE GeocodeAddress(geo, raw_value)

_to_route_points(decoded_points, start_coords, finish_coords) ==
    IF decoded_points # <<>> THEN decoded_points
    ELSE << <<start_coords[2], start_coords[1]>>, <<finish_coords[2], finish_coords[1]>> >>

\* json.dumps(value, sort_keys=True) of an input that is not a string
\* the characters of a text, token after token
RECURSIVE Join(_)
Join(text) == IF text = <<>> THEN "" ELSE Head(text) \o Join(Tail(text))

JsonDumps(raw_value) ==
    IF raw_value.kind = "list" THEN <<JsonText(raw_value.items)>> ELSE <<"null">>

KeyPart(raw_value) ==
    IF raw_value.kind # "str" THEN JsonDumps(raw_value) ELSE Strip(raw_value.text)

_trip_cache_key(start_raw, finish_raw, start_with_full_tank) ==
    "trip:v2:" \o Join(KeyPart(start_raw)) \o ":" \o Join(KeyPart(finish_raw))
        \o ":" \o (IF start_with_full_tank THEN "1" ELSE "0")

\* the four coordinates both directions links are built from
_build_start_end_map_urls(start_coords, finish_coords) ==
    [openstreetmap_directions |->
         <<start_coords[2], start_coords[1], finish_coords[2], finish_coords[1]>>,
     google_maps_directions |->
         <<start_coords[2], start_coords[1], finish_coords[2], finish_coords[1]>>]

----------------------------------------------------------------------------
(* Trip assembler *)

\* gallons (0.001 gal) for a distance (0.01 mile): segment_distance / MPG
GallonsFor(segment_distance) == (segment_distance * 1000) \div (Mile * MPG)

\* cost units for gallons (0.001 gal) at a price (0.001 $): gallons * price;
\* 0.001 gal at 0.001 $/gal is 0.000001 $, one cost unit
CostFor(gallons, price) == gallons * price

\* the cost cut to whole cents instead of rounded
TruncCents(cost) == cost \div Cent
\* round(x, 2) of a cost, in cents
RoundCents(cost) == PyRound(cost, Cent)

GapStop(order, marker, segment_distance) ==
    [order |-> order, route_mile_marker |-> marker,
     segment_distance_miles |-> segment_distance,
     note |-> "No geocoded station found near this route segment."]

FilledStop(order, marker, segment_distance, station) ==
    LET gallons == GallonsFor(segment_distance)
        segment_cost == CostFor(gallons, station.price)
    IN  [order |-> order, route_mile_marker |-> marker,
         segment_distance_miles |-> segment_distance,
         name |-> station.name,
         latitude |-> station.latitude, longitude |-> station.longitude,
         distance_to_route_miles |-> station.detour_miles,
         price_per_gallon_usd |-> station.price,
         gallons_purchased |-> PyRound(gallons, 10),
         segment_cost_usd |-> RoundCents(segment_cost)]

\* The state of the for loop of _build_trip_plan before its first iteration.
\* selections is the record of the calls of _select_station, in order.
LoopStart ==
    [fuel_stops |-> <<>>, total_cost |-> 0, previous_marker |-> -MAX_RANGE_MILES,
     missing_station_markers |-> <<>>, selections |-> <<>>]

\* the loop body in which a gap leaves previous_marker where it was
LoopStepStalePrevious(acc, order, marker, segment_distance, station) ==
    IF station = None
    THEN [acc EXCEPT
            !.missing_station_markers = Append(@, marker),
            !.fuel_stops = Append(@, GapStop(order, marker, segment_distance)),
            !.selections = Append(@, [marker |-> marker,
                                      previous_marker |-> acc.previous_marker,
                                      station |-> station])]
    ELSE [acc EXCEPT
            !.total_cost = @ + CostFor(GallonsFor(segment_distance), station.price),
            !.previous_marker = marker,
            !.fuel_stops = Append(@, FilledStop(order, marker, segment_distance, station)),
            !.selections = Append(@, [marker |-> marker,
                                      previous_marker |-> acc.previous_marker,
                                      station |-> station])]

\* one iteration of the loop from line 326 on: station is what _select_station
\* returned for the marker
LoopStep(acc, order, marker, segment_distance, station) ==
    IF station = None
    THEN [acc EXCEPT
            !.missing_station_markers = Append(@, marker),
            !.fuel_stops = Append(@, GapStop(order, marker, segment_distance)),
            !.previous_marker = marker,
            !.selections = Append(@, [marker |-> marker,
                                      previous_marker |-> acc.previous_marker,
                                      station |-> station])]
    ELSE [acc EXCEPT
            !.total_cost = @ + CostFor(GallonsFor(segment_distance), station.price),
            !.previous_marker = marker,
            !.fuel_stops = Append(@, FilledStop(order, marker, segment_distance, station)),
            !.selections = Append(@, [marker |-> marker,
                                      previous_marker |-> acc.previous_marker,
                                      station |-> station])]

\* every marker charged a whole range, whatever is left of the route
LoopBodyFullSegments(acc, order, marker, total_distance_miles, mapped_stations) ==
    LoopStep(acc, order, marker, MAX_RANGE_MILES,
             _select_station(mapped_stations, marker, acc.previous_marker))

\* one iteration of the loop: the marker waypoints[order]
LoopBody(acc, order, marker, total_distance_miles, mapped_stations) ==
    IF Min2(MAX_RANGE_MILES, total_distance_miles - marker) <= 0 THEN acc
    ELSE LoopStep(acc, order, marker,
                  Min2(MAX_RANGE_MILES, total_distance_miles - marker),
                  _select_station(mapped_stations, marker, acc.previous_marker))

RECURSIVE PlanLoop(_, _, _, _, _)
PlanLoop(acc, order, waypoints, total_distance_miles, mapped_stations) ==
    IF order > Len(waypoints) THEN acc
    ELSE PlanLoop(LoopBody(acc, order, waypoints[order], total_distance_miles,
                           mapped_stations),
                  order + 1, waypoints, total_distance_miles, mapped_stations)

IsFilled(stop) == "name" \in DOMAIN stop

NumberOfFuelStops(fuel_stops) ==
    Cardinality({i \in 1..Len(fuel_stops) : IsFilled(fuel_stops[i])})

\* the text the map link carries for an endpoint
LinkText(raw_value, coords) ==
    IF raw_value.kind = "str" THEN raw_value.text ELSE <<CommaText(coords)>>

\* lines 406-410: the warnings block, present when a marker has no station
WithWarnings(plan, missing_station_markers) ==
    IF missing_station_markers # <<>>
    THEN plan @@ [warnings |->
                    [missing_station_markers_miles |-> missing_station_markers,
                     message |-> "Some stops were estimated because no geocoded station was found nearby."]]
    ELSE plan

\* lines 361-364
PurchasableDistance(total_distance_miles, start_with_full_tank) ==
    Max2(total_distance_miles - (IF start_with_full_tank THEN MAX_RANGE_MILES ELSE 0), 0)

\* the plan dictionary, lines 361-411
AssemblePlan(start_raw, finish_raw, start_with_full_tank, start_coords, finish_coords, encoded_polyline, total_distance_miles, acc) ==
    WithWarnings(
        [start |-> [input |-> start_raw,
                    coordinates |-> [lon |-> start_coords[1], lat |-> start_coords[2]]],
         finish |-> [input |-> finish_raw,
                     coordinates |-> [lon |-> finish_coords[1], lat |-> finish_coords[2]]],
         assumptions |-> [vehicle_range_miles |-> MAX_RANGE_MILES, mpg |-> MPG,
                          start_with_full_tank |-> start_with_full_tank,
                          corridor_radius_miles |-> CORRIDOR_RADIUS_MILES],
         summary |-> [total_distance_miles |-> total_distance_miles,
                      total_fuel_consumed_gallons |->
                          PyRound(GallonsFor(total_distance_miles), 10),
                      total_fuel_purchased_gallons |->
                          PyRound(GallonsFor(PurchasableDistance(total_distance_miles,
                                                                 start_with_full_tank)), 10),
                      total_fuel_cost_usd |-> RoundCents(acc.total_cost),
                      number_of_fuel_stops |-> NumberOfFuelStops(acc.fuel_stops)],
         fuel_stops |-> acc.fuel_stops,
         route_polyline |-> encoded_polyline,
         start_end_map |-> _build_start_end_map_urls(start_coords, finish_coords),
         map_url |-> [start |-> LinkText(start_raw, start_coords),
                      finish |-> LinkText(finish_raw, finish_coords),
                      start_with_full_tank |-> start_with_full_tank]],
        acc.missing_station_markers)

\* TripPlanningError(message, status), with the collaborators used before it
PlanningError(status, message, geocoder_calls, router_calls) ==
    [status |-> status, error |-> message,
     geocoder_calls |-> geocoder_calls, router_calls |-> router_calls,
     station_loads |-> 0]

GeocoderCalls(start_raw, finish_raw) ==
    (IF NeedsGeocoder(start_raw) THEN 1 ELSE 0)
      + (IF NeedsGeocoder(finish_raw) THEN 1 ELSE 0)

\* _build_trip_plan from line 374 on: the value returned, with the
\* collaborators used and the local variables of the call
PlanReturn(start_raw, finish_raw, start_with_full_tank, start_coords, finish_coords, geocoder_calls, encoded_polyline, total_distance_miles, mapped_stations, waypoints, acc) ==
    [status |-> 200,
     plan |-> AssemblePlan(start_raw, finish_raw, start_with_full_tank, start_coords,
                           finish_coords, encoded_polyline, total_distance_miles, acc),
     geocoder_calls |-> geocoder_calls, router_calls |-> 1, station_loads |-> 1,
     total_distance_miles |-> total_distance_miles,
     mapped_stations |-> mapped_stations,
     waypoints |-> waypoints,
     total_cost |-> acc.total_cost,
     selections |-> acc.selections]

\* _build_trip_plan from line 315 on
PlanStops(start_raw, finish_raw, start_with_full_tank, start_coords, finish_coords, geocoder_calls, encoded_polyline, total_distance_miles, mapped_stations, waypoints) ==
    PlanReturn(start_raw, finish_raw, start_with_full_tank, start_coords, finish_coords,
               geocoder_calls, encoded_polyline, total_distance_miles, mapped_stations,
               waypoints,
               PlanLoop(LoopStart, 1, waypoints, total_distance_miles, mapped_stations))

\* _build_trip_plan from line 308 on
PlanMeasured(start_raw, finish_raw, start_with_full_tank, start_coords, finish_coords, geocoder_calls, encoded_polyline, station_rows, route_points, cumulative_miles) ==
    PlanStops(start_raw, finish_raw, start_with_full_tank, start_coords, finish_coords,
              geocoder_calls, encoded_polyline,
              cumulative_miles[Len(cumulative_miles)],
              _map_stations_to_route(route_points, cumulative_miles, station_rows),
              _build_waypoint_markers(cumulative_miles[Len(cumulative_miles)],
                                      start_with_full_tank))

\* _build_trip_plan from line 306 on
PlanRouted(start_raw, finish_raw, start_with_full_tank, start_coords, finish_coords, geocoder_calls, encoded_polyline, station_rows, route_points) ==
    PlanMeasured(start_raw, finish_raw, start_with_full_tank, start_coords, finish_coords,
                 geocoder_calls, encoded_polyline, station_rows, route_points,
                 _build_cumulative_miles(route_points))

\* _build_trip_plan from line 288 on
PlanResolved(start_raw, finish_raw, start_with_full_tank, route, station_rows, start_coords, finish_coords, geocoder_calls) ==
    IF start_coords = None \/ finish_coords = None
    THEN PlanningError(400,
             "Invalid start or finish. Use US address text or coordinates [lon, lat].",
             geocoder_calls, 0)
    ELSE IF ~_is_probably_us(start_coords[1], start_coords[2])
              \/ ~_is_probably_us(finish_coords[1], finish_coords[2])
    THEN PlanningError(400, "Start and finish must be locations within the USA.",
                       geocoder_calls, 0)
    ELSE IF route.distance_meters = None
    THEN PlanningError(502, "Route service failed. Check API key/quota and try again.",
                       geocoder_calls, 1)
    ELSE PlanRouted(start_raw, finish_raw, start_with_full_tank, start_coords,
                    finish_coords, geocoder_calls, route.encoded_polyline, station_rows,
                    _to_route_points(route.decoded_route, start_coords, finish_coords))

\* _build_trip_plan against the collaborators' answers: geo (the geocoder's
\* table), route (what get_route returns) and station_rows (what
\* _load_station_rows returns).  The result is the plan with status 200, or
\* the error raised; either carries the collaborators used and, for a plan,
\* the local variables of the call.
_build_trip_plan(start_raw, finish_raw, start_with_full_tank, geo, route, station_rows) ==
    PlanResolved(start_raw, finish_raw, start_with_full_tank, route, station_rows,
                 _resolve_location(geo, start_raw), _resolve_location(geo, finish_raw),
                 GeocoderCalls(start_raw, finish_raw))

----------------------------------------------------------------------------
(* Bounds and the inputs drawn within them *)

\* total distances tried on the waypoint planner: up to MaxQuarters quarter ranges
MaxQuarters == 13
\* rows in the station table
MaxStations == 2
\* legs of a routed path
MaxLegs == 3
\* requests to /route/ in one behaviour
MaxRequests == 3
\* worker threads planning at the same time
NThreads == 2

MarkerInputs ==
    {k * (MAX_RANGE_MILES \div 4) + e : k \in -1..MaxQuarters, e \in {-1, 0, 1}}

\* a table row at `along` east and `lateral` north of Origin
Row(name, price, along, lateral) ==
    [name |-> name, retail_price |-> price,
     latitude |-> <<Origin[2] + lateral>>, longitude |-> <<Origin[1] + along>>]

RowUniverse ==
    {Row("Start Fuel", 3900, 0, 0),
     Row("Mesa Fuel", 3000, 50 * Mile, 0),
     Row("Plains Fuel", 3000, 100 * Mile, 0),
     Row("North Fuel", 3000, 0, CORRIDOR_RADIUS_MILES),
     Row("South Fuel", 3000, 0, -CORRIDOR_RADIUS_MILES),
     Row("Far Fuel", 2900, 0, CORRIDOR_RADIUS_MILES + 1),
     Row("Delta Fuel", 3100, 250 * Mile, 0),
     Row("Range Fuel", 3400, MAX_RANGE_MILES + 1, 0),
     Row("Free Fuel", 0, 0, 0)}

\* tables of at most n rows, no row twice
RECURSIVE Tables(_)
Tables(n) ==
    IF n = 0 THEN {<<>>}
    ELSE LET shorter == Tables(n - 1)
             longest == {t \in shorter : Len(t) = n - 1}
         IN  shorter \cup
             UNION {{Append(t, r) : r \in RowUniverse \ {t[i] : i \in 1..Len(t)}} :
                    t \in longest}

LegLengths == {1, 50 * Mile, 250 * Mile, MAX_RANGE_MILES + 1}

\* the path of n legs of length leg from Origin eastwards, as <<lat, lon>> points
Path(n, leg) == [i \in 1..(n + 1) |-> <<Origin[2], Origin[1] + (i - 1) * leg>>]

RouteOk(decoded_route) ==
    [distance_meters |-> <<2700000>>, encoded_polyline |-> <<"encoded-polyline">>,
     decoded_route |-> decoded_route]
RouteFailed ==
    [distance_meters |-> None, encoded_polyline |-> None, decoded_route |-> <<>>]

\* what the router may answer with a distance: a path, or no path at all
RoutesOk ==
    {RouteOk(Path(n, leg)) : n \in 0..MaxLegs, leg \in LegLengths} \cup {RouteOk(<<>>)}

NoRequest == [start |-> Missing, finish |-> Missing, start_with_full_tank |-> FALSE]
NoResponse == [status |-> 0]
NoCalls == [geocoder |-> 0, router |-> 0, cache_get |-> 0, cache_set |-> 0,
            station_loads |-> 0]
NoMemo == [full |-> FALSE, rows |-> <<>>]
NoCall == [fn |-> "none"]
Pending == [done |-> FALSE]

\* the parts of the state a specification does not use
EndpointIdle ==
    /\ cache = <<>> /\ request = NoRequest /\ response = NoResponse
    /\ calls = NoCalls /\ nreq = 0 /\ filled = <<>> /\ seen = <<>>
ThreadsIdle == pc = <<>> /\ loc = <<>>
EnvIdle == db = <<>> /\ memo = NoMemo /\ geocoder = <<>> /\ router = RouteFailed

----------------------------------------------------------------------------
(* The waypoint planner alone: SpecMarkers *)

InitMarkers ==
    /\ EnvIdle /\ EndpointIdle /\ ThreadsIdle
    /\ call \in {[fn |-> "markers", total_miles |-> d, start_with_full_tank |-> f] :
                    d \in MarkerInputs, f \in BOOLEAN}
    /\ result = Pending

CallMarkers ==
    /\ call.fn = "markers" /\ ~result.done
    /\ result' = [done |-> TRUE,
                  value |-> _build_waypoint_markers(call.total_miles,
                                                    call.start_with_full_tank)]
    /\ UNCHANGED <<db, memo, geocoder, router, cache, request, response, calls, nreq,
                   filled, seen, call, pc, loc>>

NextMarkers == CallMarkers
SpecMarkers == InitMarkers /\ [][NextMarkers]_vars

----------------------------------------------------------------------------
(* The planner alone, on one route and one station table, with an empty and *)
(* with a full tank: SpecPlan                                               *)

PlanStart == List(Origin)
PlanFinish == List(East(MAX_RANGE_MILES + 1))

InitPlan ==
    /\ EndpointIdle /\ ThreadsIdle
    /\ db \in Tables(MaxStations)
    /\ memo = NoMemo
    /\ geocoder = <<>>
    /\ router \in RoutesOk
    /\ call = [fn |-> "plan", start |-> PlanStart, finish |-> PlanFinish]
    /\ result = Pending

\* _build_trip_plan twice on the same inputs but the flag, as
\* test_start_with_full_tank_reduces_stops does
CallPlan ==
    /\ call.fn = "plan" /\ ~result.done
    /\ memo' = [full |-> TRUE, rows |-> QueryStationRows(db)]
    /\ result' = [done |-> TRUE,
                  default |-> _build_trip_plan(call.start, call.finish, FALSE,
                                               geocoder, router, memo'.rows),
                  full_tank |-> _build_trip_plan(call.start, call.finish, TRUE,
                                                 geocoder, router, memo'.rows)]
    /\ UNCHANGED <<db, geocoder, router, cache, request, response, calls, nreq,
                   filled, seen, call, pc, loc>>

NextPlan == CallPlan
SpecPlan == InitPlan /\ [][NextPlan]_vars

----------------------------------------------------------------------------
(* Claims on the waypoint planner *)

CeilDiv(a, b) == (a + b - 1) \div b

MarkersOut == result.value
MarkersCalled == call.fn = "markers" /\ result.done

\* C1: for every total distance D the markers are strictly ascending, each
\* strictly less than D, start at 500 with a full tank and at 0 without, and
\* step by exactly 500; without a full tank and D > 0 they are 0, 500, 1000, ...
\* while < D, ceil(D / 500) of them; for D <= 0 there are none.
C1_MarkersContract ==
    MarkersCalled =>
        LET D == call.total_miles
            full == call.start_with_full_tank
            m == MarkersOut
        IN  /\ \A i \in 1..Len(m) : m[i] < D
            /\ \A i \in 1..(Len(m) - 1) : m[i] < m[i + 1] /\ m[i + 1] - m[i] = 500 * Mile
            /\ Len(m) > 0 => m[1] = (IF full THEN 500 * Mile ELSE 0)
            /\ (~full /\ D > 0) =>
                  /\ Len(m) = CeilDiv(D, 500 * Mile)
                  /\ \A i \in 1..Len(m) : m[i] = (i - 1) * 500 * Mile
            /\ D <= 0 => m = <<>>

\* a call with several markers whose distance is an exact multiple of the
\* range, so that the next marker would equal the distance
C1_Witness ==
    /\ MarkersCalled
    /\ call.total_miles = 3 * MAX_RANGE_MILES
    /\ Len(MarkersOut) >= 2

----------------------------------------------------------------------------
(* Claims on the planner: the two plans of a SpecPlan behaviour *)

Planned == call.fn = "plan" /\ result.done
Frames == IF Planned THEN {result.default, result.full_tank} ELSE {}
GoodFrames == {f \in Frames : f.status = 200}
Stops(f) == f.plan.summary.number_of_fuel_stops
FilledStops(f) ==
    {f.plan.fuel_stops[i] : i \in {j \in 1..Len(f.plan.fuel_stops) :
                                      IsFilled(f.plan.fuel_stops[j])}}
Selections(f) == {f.selections[i] : i \in 1..Len(f.selections)}
Chosen(f) == {s \in Selections(f) : s.station # None}

\* C2: on the same route and station table the full-tank plan never has more
\* successful fuel stops than the default plan; for D > 0 it has at least one
\* marker less; and it has strictly fewer stops whenever the default plan has
\* at least one.
C2_FullTankFewerStops ==
    (Planned /\ result.default.status = 200 /\ result.full_tank.status = 200) =>
        LET d == result.default
            f == result.full_tank
        IN  /\ Stops(f) <= Stops(d)
            /\ d.total_distance_miles > 0 => Len(f.waypoints) <= Len(d.waypoints) - 1
            /\ Stops(d) >= 1 => Stops(f) < Stops(d)

C2_Witness ==
    /\ Planned
    /\ result.default.status = 200 /\ result.full_tank.status = 200
    /\ Stops(result.default) >= 3
    /\ Stops(result.full_tank) >= 2

\* C3: every station that is a successful fuel stop of a plan has
\* detour_miles <= 25, whichever stage of the selection chose it.
C3_StopsWithinCorridor ==
    \A f \in GoodFrames :
        /\ \A s \in Chosen(f) : s.station.detour_miles <= 25 * Mile
        /\ \A stop \in FilledStops(f) : stop.distance_to_route_miles <= 25 * Mile
        /\ Cardinality(Chosen(f)) >= Stops(f)

\* a stop chosen by the last fallback, exactly on the corridor's edge, from a
\* table holding a station the corridor leaves out
C3_Witness ==
    \E f \in GoodFrames : \E s \in Chosen(f) :
        /\ s.station.route_mile < s.previous_marker - BACKTRACK_MILES
        /\ s.station.detour_miles = CORRIDOR_RADIUS_MILES
        /\ Len(f.mapped_stations) < Len(db)

PositiveStop(f) == \E stop \in FilledStops(f) : stop.price_per_gallon_usd > 0

\* C4 as claimed: total_fuel_cost_usd is strictly positive whenever a stop is
\* filled with a positive-price station.
C4_AsClaimed ==
    \A f \in GoodFrames : PositiveStop(f) => f.plan.summary.total_fuel_cost_usd > 0

\* C4, amended: with a stop filled at a positive price the sum of the segment
\* costs before rounding is strictly positive; total_fuel_cost_usd is that sum
\* rounded to cents, positive when the sum is above half a cent and 0.00 when
\* it is below.
C4_CostPositiveBeforeRounding ==
    \A f \in GoodFrames :
        PositiveStop(f) =>
            /\ f.total_cost > 0
            /\ f.total_cost > Cent \div 2 => f.plan.summary.total_fuel_cost_usd > 0
            /\ f.total_cost < Cent \div 2 => f.plan.summary.total_fuel_cost_usd = 0

\* a purchase between half a cent and a cent
C4_Witness ==
    \E f \in GoodFrames :
        /\ PositiveStop(f)
        /\ f.total_cost > Cent \div 2 /\ f.total_cost < Cent
        /\ f.plan.summary.total_fuel_cost_usd = 1

\* the score of the claim: price + 0.04 * detour_miles + 0.002 * |route_mile - marker|
ClaimScore(station, marker) ==
    1000 * station.price + 400 * station.detour_miles
      + 20 * Abs(station.route_mile - marker)

\* the candidate test of the claim, for the w-th of the windows 60, 120, 200, 320
ClaimInWindow(station, s, w) ==
    /\ Abs(station.route_mile - s.marker) <= <<60, 120, 200, 320>>[w] * Mile
    /\ station.route_mile >= s.previous_marker - 40 * Mile

OpenWindows(f, s) ==
    {w \in 1..4 : \E i \in 1..Len(f.mapped_stations) :
                      ClaimInWindow(f.mapped_stations[i], s, w)}

\* C10: the first window, in the order 60, 120, 200, 320, that has a candidate
\* wins: the station chosen is the candidate of that window of minimum score,
\* the first in corridor order on a tie, and no station outside that window.
C10_FirstWindowWins ==
    \A f \in GoodFrames : \A s \in Selections(f) :
        OpenWindows(f, s) # {} =>
            LET w == SetMin(OpenWindows(f, s))
                mapped == f.mapped_stations
                cands == {i \in 1..Len(mapped) : ClaimInWindow(mapped[i], s, w)}
                best == {i \in cands :
                            \A j \in cands : ClaimScore(mapped[i], s.marker)
                                               <= ClaimScore(mapped[j], s.marker)}
            IN  s.station # None /\ s.station = mapped[SetMin(best)]

\* the station chosen from the first open window while a station that lies
\* only in a wider window has a strictly lower score
C10_Witness ==
    \E f \in GoodFrames : \E s \in Chosen(f) :
        /\ OpenWindows(f, s) # {}
        /\ \E i \in 1..Len(f.mapped_stations) :
              /\ ~ClaimInWindow(f.mapped_stations[i], s, SetMin(OpenWindows(f, s)))
              /\ \E w \in OpenWindows(f, s) : ClaimInWindow(f.mapped_stations[i], s, w)
              /\ ClaimScore(f.mapped_stations[i], s.marker)
                    < ClaimScore(s.station, s.marker)

\* the backtrack bound of the claim at a selection: previous_marker - 40 miles
ClaimBound(s) == s.previous_marker - 40 * Mile
\* the mapped stations of the plan at or ahead of the bound
Ahead(f, s) ==
    {i \in 1..Len(f.mapped_stations) : f.mapped_stations[i].route_mile >= ClaimBound(s)}

\* C11 as stated: at every marker of every plan the station selected has
\* route_mile >= previous_marker - 40.
C11_AsClaimed ==
    \A f \in GoodFrames : \A s \in Chosen(f) : s.station.route_mile >= ClaimBound(s)

\* C11: at every marker of every plan the station selected has
\* route_mile >= previous_marker - 40 whenever some mapped station has; a
\* station behind the bound is selected only when every mapped station is
\* behind it, by the fallback on the whole mapped set.
C11_NoBacktrackWhenPossible ==
    \A f \in GoodFrames : \A s \in Chosen(f) :
        /\ Ahead(f, s) # {} => s.station.route_mile >= ClaimBound(s)
        /\ s.station.route_mile < ClaimBound(s) => OpenWindows(f, s) = {}

\* no window has a candidate, and the station selected is ahead of the bound
\* although a station behind the bound has a strictly lower score
C11_Witness ==
    \E f \in GoodFrames : \E s \in Chosen(f) :
        /\ OpenWindows(f, s) = {}
        /\ s.station.route_mile >= ClaimBound(s)
        /\ \E i \in 1..Len(f.mapped_stations) :
              /\ f.mapped_stations[i].route_mile < ClaimBound(s)
              /\ ClaimScore(f.mapped_stations[i], s.marker)
                    < ClaimScore(s.station, s.marker)

\* a gap entry: a note and no station
IsGap(stop) == "note" \in DOMAIN stop /\ "name" \notin DOMAIN stop
GapEntries(f) == SelectSeq(f.plan.fuel_stops, IsGap)
GapMarkers(f) == [k \in 1..Len(GapEntries(f)) |-> GapEntries(f)[k].route_mile_marker]

\* C12: every plan has one entry per marker, in marker order; the entry of a
\* marker is a gap exactly when the mapped station set is empty; the request
\* still ends with status 200; the warnings block is there exactly when
\* there is a gap and lists the gap markers in route order; and
\* number_of_fuel_stops plus the number of gaps is the number of markers.
C12_GapsAndWarnings ==
    \A f \in Frames :
        /\ f.status = 200
        /\ Len(f.plan.fuel_stops) = Len(f.waypoints)
        /\ \A k \in 1..Len(f.waypoints) :
              /\ f.plan.fuel_stops[k].route_mile_marker = f.waypoints[k]
              /\ IsGap(f.plan.fuel_stops[k]) <=> f.mapped_stations = <<>>
              /\ IsGap(f.plan.fuel_stops[k]) \/ IsFilled(f.plan.fuel_stops[k])
        /\ "warnings" \in DOMAIN f.plan <=> GapEntries(f) # <<>>
        /\ "warnings" \in DOMAIN f.plan =>
              f.plan.warnings.missing_station_markers_miles = GapMarkers(f)
        /\ Stops(f) + Len(GapEntries(f)) = Len(f.waypoints)

\* a plan of two markers or more, all gaps, on a table whose stations all lie
\* outside the corridor
C12_Witness ==
    /\ Planned /\ db # <<>>
    /\ \E f \in GoodFrames :
          /\ f.mapped_stations = <<>>
          /\ Len(f.waypoints) >= 2
          /\ Len(GapEntries(f)) = Len(f.waypoints)
          /\ "warnings" \in DOMAIN f.plan

\* C13: in the selection loop previous_marker is -500 at the first marker and
\* at every later marker is the marker before it, filled or gap; so the bound
\* previous_marker - 40 is at least 540 miles behind the marker, and every
\* mapped station within 320 miles of the marker is at or ahead of the bound.
C13_PreviousMarkerAdvances ==
    \A f \in GoodFrames :
        /\ Len(f.selections) = Len(f.waypoints)
        /\ \A k \in 1..Len(f.selections) :
              /\ f.selections[k].marker = f.waypoints[k]
              /\ f.selections[k].previous_marker =
                    IF k = 1 THEN -500 * Mile ELSE f.waypoints[k - 1]
              /\ f.selections[k].marker - (f.selections[k].previous_marker - 40 * Mile)
                    >= 540 * Mile
              /\ \A i \in 1..Len(f.mapped_stations) :
                    Abs(f.mapped_stations[i].route_mile - f.selections[k].marker)
                          <= 320 * Mile
                      => f.mapped_stations[i].route_mile
                            >= f.selections[k].previous_marker - 40 * Mile

\* three markers or more, each after the first following a gap
C13_Witness ==
    \E f \in GoodFrames :
        /\ Len(f.selections) >= 3
        /\ \A k \in 1..Len(f.selections) : f.selections[k].station = None
        /\ f.selections[3].previous_marker = f.selections[2].marker

RECURSIVE SeqSum(_)
SeqSum(seq) == IF seq = <<>> THEN 0 ELSE Head(seq) + SeqSum(Tail(seq))

\* the claim's arithmetic: gallons (0.001 gal) for a distance (0.01 mile) at
\* 10 miles per gallon, and their cost at a price (0.001 $ per gallon)
ClaimGallons(distance) == (distance * 1000) \div (10 * Mile)
ClaimSegment(f, k) == Min2(500 * Mile, f.total_distance_miles - f.waypoints[k])
ClaimPurchasable(f) ==
    Max2(f.total_distance_miles
           - (IF f.plan.assumptions.start_with_full_tank THEN 500 * Mile ELSE 0), 0)
Segments(f) ==
    [k \in 1..Len(f.plan.fuel_stops) |-> f.plan.fuel_stops[k].segment_distance_miles]
SegmentCosts(f) ==
    [k \in 1..Len(f.selections) |->
        IF f.selections[k].station = None THEN 0
        ELSE ClaimGallons(ClaimSegment(f, k)) * f.selections[k].station.price]

\* C15: in every plan each entry's segment distance is
\* min(500, total_distance - marker) and is strictly positive; the segment
\* distances of all entries, filled and gaps, sum to
\* max(total_distance - (500 with a full tank, else 0), 0); with no gap the
\* gallons of the segments sum to the gallons purchased of the summary
\* before its rounding, and the summary carries that sum rounded; the total
\* cost before rounding is the sum over the filled stops of
\* (segment distance / 10) * station price.
C15_FuelAccounting ==
    \A f \in GoodFrames :
        /\ Len(f.plan.fuel_stops) = Len(f.waypoints)
        /\ \A k \in 1..Len(f.plan.fuel_stops) :
              /\ f.plan.fuel_stops[k].segment_distance_miles = ClaimSegment(f, k)
              /\ f.plan.fuel_stops[k].segment_distance_miles > 0
        /\ SeqSum(Segments(f)) = ClaimPurchasable(f)
        /\ f.plan.summary.number_of_fuel_stops = Len(f.plan.fuel_stops) =>
              /\ SeqSum([k \in 1..Len(Segments(f)) |-> ClaimGallons(Segments(f)[k])])
                    = ClaimGallons(ClaimPurchasable(f))
              /\ f.plan.summary.total_fuel_purchased_gallons
                    = PyRound(SeqSum([k \in 1..Len(Segments(f)) |->
                                         ClaimGallons(Segments(f)[k])]), 10)
        /\ f.total_cost = SeqSum(SegmentCosts(f))

\* a plan with a full tank and no gap, of two stops or more at a positive
\* price, the last segment shorter than the range
C15_Witness ==
    \E f \in GoodFrames :
        /\ f.plan.assumptions.start_with_full_tank
        /\ Len(f.plan.fuel_stops) >= 2
        /\ f.plan.summary.number_of_fuel_stops = Len(f.plan.fuel_stops)
        /\ f.plan.fuel_stops[Len(f.plan.fuel_stops)].segment_distance_miles
              < 500 * Mile
        /\ f.selections[1].station.price > 0
        /\ f.total_cost > 0

----------------------------------------------------------------------------
(* The route endpoint: Spec *)

\* the inputs _extract_inputs hands to route_distance
StartInputs ==
    {Missing, List(Origin), Str(<<JsonText(Origin)>>), Str(<<"Los Angeles, CA">>)}
FinishInputs ==
    {Missing, Str(<<CommaText(East(MAX_RANGE_MILES + 1))>>), Str(<<CommaText(Abroad)>>)}

\* what the geocoder may know of the one address of StartInputs
GeocoderTables ==
    {[a \in {<<"Los Angeles, CA">>} |-> c] : c \in {Origin, Abroad, None}}

EndpointTable ==
    <<Row("Start Fuel", 3900, 0, 0), Row("Range Fuel", 3400, MAX_RANGE_MILES + 1, 0)>>

Init ==
    /\ EndpointIdle /\ ThreadsIdle
    /\ db = EndpointTable
    /\ memo = NoMemo
    /\ geocoder \in GeocoderTables
    /\ router \in {RouteFailed, RouteOk(<<>>)}
    /\ call = NoCall
    /\ result = Pending

\* a mapping with key k set to v, and with key k removed
Put(f, k, v) == [x \in DOMAIN f \cup {k} |-> IF x = k THEN v ELSE f[x]]
Drop(f, k) == [x \in DOMAIN f \ {k} |-> f[x]]

\* line 431, a conjunction in place of the disjunction
BothInputsMissing(start, finish) == start = Missing /\ finish = Missing
\* line 431
InputsMissing(start, finish) == start = Missing \/ finish = Missing

\* lines 432-442
MissingInputsBody ==
    [error |-> "Both start and finish are required.",
     example |-> [start |-> "Los Angeles, CA", finish |-> "Dallas, TX",
                  start_with_full_tank |-> FALSE]]

\* the payload returned as it was cached
PublicOnHitRaw(cached) == cached
\* lines 447-448: dict(cached) without route_polyline
PublicOnHit(cached) == [k \in DOMAIN cached \ {"route_polyline"} |-> cached[k]]
\* lines 457-458: dict(plan) without route_polyline
PublicOnMiss(plan) == [k \in DOMAIN plan \ {"route_polyline"} |-> plan[k]]

\* _load_station_rows() under lru_cache(maxsize=1)
LoadStationRows == IF memo.full THEN memo.rows ELSE QueryStationRows(db)

\* the payloads a request has been answered with so far
Seen(req) == IF req \in DOMAIN seen THEN seen[req] ELSE {}

\* lines 432-442: the early return
AnswerMissing ==
    /\ response' = [status |-> 400, body |-> MissingInputsBody]
    /\ calls' = NoCalls
    /\ UNCHANGED <<cache, memo, filled, seen>>

\* lines 446-449: the cache holds the key
AnswerHit(req, cache_key) ==
    /\ response' = [status |-> 200, body |-> PublicOnHit(cache[cache_key])]
    /\ calls' = [NoCalls EXCEPT !.cache_get = 1]
    /\ seen' = Put(seen, req, Seen(req) \cup {PublicOnHit(cache[cache_key])})
    /\ UNCHANGED <<cache, memo, filled>>

\* lines 451-459: the cache does not hold the key; frame is what
\* _build_trip_plan did with the rows station_rows
AnswerMiss(req, cache_key, station_rows, frame) ==
    IF frame.status # 200
    THEN /\ response' = [status |-> frame.status, body |-> [error |-> frame.error]]
         /\ calls' = [NoCalls EXCEPT !.cache_get = 1,
                                     !.geocoder = frame.geocoder_calls,
                                     !.router = frame.router_calls]
         /\ UNCHANGED <<cache, memo, filled, seen>>
    ELSE /\ cache' = Put(cache, cache_key, frame.plan)
         /\ memo' = [full |-> TRUE, rows |-> station_rows]
         /\ response' = [status |-> 200, body |-> PublicOnMiss(frame.plan)]
         /\ calls' = [geocoder |-> frame.geocoder_calls,
                      router |-> frame.router_calls,
                      cache_get |-> 1, cache_set |-> 1,
                      station_loads |-> IF memo.full THEN 0 ELSE 1]
         /\ filled' = Put(filled, cache_key, PublicOnMiss(frame.plan))
         /\ seen' = Put(seen, req, Seen(req) \cup {PublicOnMiss(frame.plan)})

\* lines 444-459
AnswerKeyed(req, cache_key) ==
    IF cache_key \in DOMAIN cache
    THEN AnswerHit(req, cache_key)
    ELSE AnswerMiss(req, cache_key, LoadStationRows,
                    _build_trip_plan(req.start, req.finish, req.start_with_full_tank,
                                     geocoder, router, LoadStationRows))

\* the whole of route_distance for the extracted inputs (start, finish, flag)
route_distance(start, finish, start_with_full_tank) ==
    /\ nreq < MaxRequests
    /\ nreq' = nreq + 1
    /\ request' = [start |-> start, finish |-> finish,
                   start_with_full_tank |-> start_with_full_tank]
    /\ IF InputsMissing(start, finish)
       THEN AnswerMissing
       ELSE AnswerKeyed([start |-> start, finish |-> finish,
                         start_with_full_tank |-> start_with_full_tank],
                        _trip_cache_key(start, finish, start_with_full_tank))
    /\ UNCHANGED <<db, geocoder, router, call, result, pc, loc>>

\* the entry of key leaves the cache: its timeout of 60 * 15 seconds has passed
CacheExpire(key) ==
    /\ key \in DOMAIN cache
    /\ cache' = Drop(cache, key)
    /\ filled' = Drop(filled, key)
    /\ UNCHANGED <<db, memo, geocoder, router, request, response, calls, nreq, seen,
                   call, result, pc, loc>>

Next ==
    \/ \E start \in StartInputs, finish \in FinishInputs, flag \in BOOLEAN :
          route_distance(start, finish, flag)
    \/ \E key \in DOMAIN cache : CacheExpire(key)

Spec == Init /\ [][Next]_vars

----------------------------------------------------------------------------
(* Claims about the route endpoint *)

\* a request has been answered: request and response are those of the last one
Answered == nreq > 0
RequestKey ==
    _trip_cache_key(request.start, request.finish, request.start_with_full_tank)
\* start or finish of the last request is missing
RequestMissing == request.start = Missing \/ request.finish = Missing
\* the last request was served from the cache
CacheHit == Answered /\ response.status = 200 /\ calls.cache_set = 0
PlanKeys ==
    {"start", "finish", "assumptions", "summary", "fuel_stops", "route_polyline",
     "start_end_map", "map_url"}
\* the body is a whole plan as the endpoint publishes it
CompletePlan(body) ==
    /\ PlanKeys \ {"route_polyline"} \subseteq DOMAIN body
    /\ DOMAIN body \subseteq PlanKeys \cup {"warnings"}
    /\ body.summary.number_of_fuel_stops = NumberOfFuelStops(body.fuel_stops)
\* nothing of a plan is in the body
NoPlan(body) == DOMAIN body \cap (PlanKeys \cup {"warnings"}) = {}

\* C5: a request in which start or finish is missing is answered with status
\* 400 and no collaborator is used: no geocoder call, no router call, no
\* cache read or write, no station load, no plan in the body; the step that
\* answers it leaves the cache and the memoized station rows as they were.
C5_MissingInputsRejected ==
    /\ [](Answered /\ RequestMissing =>
            /\ response.status = 400
            /\ calls = NoCalls
            /\ NoPlan(response.body))
    /\ [][nreq' # nreq /\ (request'.start = Missing \/ request'.finish = Missing) =>
            cache' = cache /\ memo' = memo]_vars

\* only one of the two inputs is missing, and the cache holds plans that a
\* lookup could have found
C5_Witness ==
    /\ Answered /\ response.status = 400
    /\ request.start # Missing /\ request.finish = Missing
    /\ cache # <<>>

\* the US bounding box as the claim gives it: lon in [-179.9, -66.0] and
\* lat in [18.0, 72.0]
ClaimInUsBox(coords) ==
    /\ -1799 * Degree <= 10 * coords[1] /\ coords[1] <= -66 * Degree
    /\ 18 * Degree <= coords[2] /\ coords[2] <= 72 * Degree
ClaimResolved(raw_value) == _resolve_location(geocoder, raw_value)
ClaimBadEndpoint(raw_value) ==
    ClaimResolved(raw_value) = None \/ ~ClaimInUsBox(ClaimResolved(raw_value))
ClaimClientError ==
    ClaimBadEndpoint(request.start) \/ ClaimBadEndpoint(request.finish)

\* C6: a request with both inputs ends in exactly one of three outcomes,
\* decided in this order: status 400, with the router never called, when an
\* endpoint does not resolve or resolves outside the US box; status 502 when
\* the router returns no distance; otherwise status 200 with a complete plan.
\* A failed request carries no part of a plan, made at most two geocoder
\* calls and one router call, wrote nothing to the cache, and leaves its key
\* absent from the cache; the step that answers it leaves the cache as it was.
C6_ThreeOutcomes ==
    /\ [](Answered /\ ~RequestMissing =>
            /\ response.status \in {400, 502, 200}
            /\ ClaimClientError => response.status = 400 /\ calls.router = 0
            /\ ~ClaimClientError /\ router.distance_meters = None =>
                  response.status = 502 /\ calls.router = 1
            /\ ~ClaimClientError /\ router.distance_meters # None =>
                  response.status = 200 /\ CompletePlan(response.body)
            /\ response.status # 200 =>
                  /\ DOMAIN response.body = {"error"}
                  /\ NoPlan(response.body)
                  /\ calls.geocoder <= 2 /\ calls.router <= 1
                  /\ calls.cache_set = 0
                  /\ RequestKey \notin DOMAIN cache)
    /\ [][nreq' # nreq /\ response'.status # 200 => cache' = cache]_vars

\* a geocoded start inside the box, a finish outside it and a router that
\* would fail: the client error wins, after a plan of another request was
\* cached
C6_Witness ==
    /\ Answered /\ response.status = 400 /\ calls.router = 0
    /\ calls.geocoder = 1
    /\ ~ClaimBadEndpoint(request.start) /\ ClaimBadEndpoint(request.finish)
    /\ ClaimResolved(request.finish) # None

\* C7: no response of status 200 has the key route_polyline, whether the
\* plan was built by this request or read from the cache.
C7_NoPolylineInResponse ==
    Answered /\ response.status = 200 => "route_polyline" \notin DOMAIN response.body

\* a cache hit whose cached plan does hold the encoded path
C7_Witness ==
    /\ CacheHit
    /\ "route_polyline" \in DOMAIN cache[RequestKey]
    /\ cache[RequestKey].route_polyline # None

\* C8 as stated: any two requests with the same (start, finish, flag) were
\* answered with the same plan, rebuilt or cached, and a cache hit returns
\* the payload the request that filled the cache returned, with no geocoder
\* or router call.  The station table, the geocoder and the router do not
\* change in Spec; the entry read by the last request is still in the cache
\* until it expires.
C8_Idempotent ==
    /\ \A req \in DOMAIN seen : Cardinality(seen[req]) <= 1
    /\ CacheHit /\ RequestKey \in DOMAIN filled =>
          /\ response.body = filled[RequestKey]
          /\ calls.geocoder = 0 /\ calls.router = 0

\* an input after trimming: a string without the white space around it, any
\* other value as it is
TrimInput(raw_value) ==
    IF raw_value.kind = "str" THEN Str(Strip(raw_value.text)) ELSE raw_value
Triple(req) ==
    <<TrimInput(req.start), TrimInput(req.finish), req.start_with_full_tank>>
KeyOf(req) == _trip_cache_key(req.start, req.finish, req.start_with_full_tank)

\* C14 as stated: any two requests answered with a plan whose trimmed
\* (start, finish, flag) triples differ have different cache keys, and on a
\* cache hit the start and finish inputs of the plan returned are, after
\* trimming, those of the request.
C14_CacheServesOwnPlan ==
    /\ \A r1 \in DOMAIN seen, r2 \in DOMAIN seen :
          Triple(r1) # Triple(r2) => KeyOf(r1) # KeyOf(r2)
    /\ CacheHit =>
          /\ TrimInput(response.body.start.input) = TrimInput(request.start)
          /\ TrimInput(response.body.finish.input) = TrimInput(request.finish)

----------------------------------------------------------------------------
(* Plans built by concurrent worker threads while the geocoding batch
   updates the station table: SpecConc *)

Threads == 1..NThreads

\* the table once the batch has geocoded every row
ConcTable ==
    <<Row("Start Fuel", 3900, 0, 0), Row("Mesa Fuel", 3000, 50 * Mile, 0),
      Row("Range Fuel", 3400, MAX_RANGE_MILES + 1, 0)>>

\* a row the batch has not reached: latitude and longitude are NULL
Ungeocoded(row) == [row EXCEPT !.latitude = None, !.longitude = None]

\* the route every thread plans along, and what lines 306-313 make of it
ConcRoutePoints == Path(1, MAX_RANGE_MILES + 1)
ConcCumulative == _build_cumulative_miles(ConcRoutePoints)
ConcTotal == ConcCumulative[Len(ConcCumulative)]
ConcWaypoints == _build_waypoint_markers(ConcTotal, FALSE)

NoLocals ==
    [station_rows |-> <<>>, reads |-> 0, mapped_stations |-> <<>>,
     acc |-> LoopStart, order |-> 1]

InitConc ==
    /\ EndpointIdle
    /\ geocoder = <<>> /\ router = RouteOk(<<>>)
    /\ db \in {[i \in 1..Len(ConcTable) |->
                   IF i \in done THEN ConcTable[i] ELSE Ungeocoded(ConcTable[i])] :
               done \in SUBSET (1..Len(ConcTable))}
    /\ memo = NoMemo
    /\ pc = [t \in Threads |-> "lookup"]
    /\ loc = [t \in Threads |-> NoLocals]
    /\ call = NoCall
    /\ result = Pending

\* the rows read from the table at the moment they are used
FreshRows(t) == QueryStationRows(db)
\* the list _load_station_rows() returned to thread t
station_rows(t) == loc[t].station_rows

\* lru_cache looks the key up: a hit returns the memoized list
Lookup(t) ==
    /\ pc[t] = "lookup"
    /\ IF memo.full
       THEN /\ loc' = [loc EXCEPT ![t].station_rows = memo.rows]
            /\ pc' = [pc EXCEPT ![t] = "map"]
       ELSE /\ pc' = [pc EXCEPT ![t] = "query"]
            /\ UNCHANGED loc
    /\ UNCHANGED <<db, memo, geocoder, router, cache, request, response, calls, nreq,
                   filled, seen, call, result>>

\* the body of _load_station_rows: one SELECT, read into a new list
Query(t) ==
    /\ pc[t] = "query"
    /\ loc' = [loc EXCEPT ![t].station_rows = QueryStationRows(db),
                          ![t].reads = @ + 1]
    /\ pc' = [pc EXCEPT ![t] = "store"]
    /\ UNCHANGED <<db, memo, geocoder, router, cache, request, response, calls, nreq,
                   filled, seen, call, result>>

\* lru_cache stores the result unless another thread stored one meanwhile
Store(t) ==
    /\ pc[t] = "store"
    /\ memo' = IF memo.full THEN memo
               ELSE [full |-> TRUE, rows |-> loc[t].station_rows]
    /\ pc' = [pc EXCEPT ![t] = "map"]
    /\ UNCHANGED <<db, geocoder, router, cache, request, response, calls, nreq,
                   filled, seen, call, result, loc>>

\* the rest of _map_stations_to_route, lines 159-195
MapStations(t) ==
    /\ pc[t] = "map"
    /\ loc' = [loc EXCEPT ![t].mapped_stations =
                   _map_stations_to_route(ConcRoutePoints, ConcCumulative,
                                          station_rows(t))]
    /\ pc' = [pc EXCEPT ![t] = IF ConcWaypoints = <<>> THEN "done" ELSE "select"]
    /\ UNCHANGED <<db, memo, geocoder, router, cache, request, response, calls, nreq,
                   filled, seen, call, result>>

\* one iteration of the loop of lines 320-359
SelectStop(t) ==
    /\ pc[t] = "select"
    /\ loc' = [loc EXCEPT
                 ![t].acc = LoopBody(loc[t].acc, loc[t].order,
                                     ConcWaypoints[loc[t].order], ConcTotal,
                                     loc[t].mapped_stations),
                 ![t].order = @ + 1]
    /\ pc' = [pc EXCEPT ![t] = IF loc[t].order = Len(ConcWaypoints) THEN "done"
                                ELSE "select"]
    /\ UNCHANGED <<db, memo, geocoder, router, cache, request, response, calls, nreq,
                   filled, seen, call, result>>

\* run_geocode_batch saves one station: both coordinates in one UPDATE
GeocodeSave(i) ==
    /\ db[i].latitude = None /\ db[i].longitude = None
    /\ db' = [db EXCEPT ![i] = ConcTable[i]]
    /\ UNCHANGED <<memo, geocoder, router, cache, request, response, calls, nreq,
                   filled, seen, call, result, pc, loc>>

NextConc ==
    \/ \E t \in Threads : Lookup(t)
    \/ \E t \in Threads : Query(t)
    \/ \E t \in Threads : Store(t)
    \/ \E t \in Threads : MapStations(t)
    \/ \E t \in Threads : SelectStop(t)
    \/ \E i \in 1..Len(ConcTable) : GeocodeSave(i)

SpecConc == InitConc /\ [][NextConc]_vars

\* the plan of the loop run in one piece on the rows thread t was handed
PlanOnSnapshot(t) ==
    PlanLoop(LoopStart, 1, ConcWaypoints, ConcTotal,
             _map_stations_to_route(ConcRoutePoints, ConcCumulative,
                                    loc[t].station_rows))

\* the stop is a station of the rows: same name, price and coordinates
StopFromRows(stop, rows) ==
    \E i \in 1..Len(rows) :
        /\ rows[i].name = stop.name
        /\ rows[i].price = stop.price_per_gallon_usd
        /\ rows[i].latitude = stop.latitude
        /\ rows[i].longitude = stop.longitude

\* C9: whatever the interleaving of station updates with plans, a plan reads
\* the station table at most once; every fuel stop it has chosen so far is a
\* station of the one list it was handed, and the finished plan is the plan
\* of that list; a thread that read nothing works on the memoized list
\* itself; once the memoized list is set, no step changes it.
C9_OneSnapshotPerPlan ==
    /\ [](\A t \in Threads :
            /\ loc[t].reads <= 1
            /\ \A k \in 1..Len(loc[t].acc.fuel_stops) :
                  IsFilled(loc[t].acc.fuel_stops[k]) =>
                      StopFromRows(loc[t].acc.fuel_stops[k], loc[t].station_rows)
            /\ pc[t] = "done" => loc[t].acc = PlanOnSnapshot(t)
            /\ pc[t] \in {"map", "select", "done"} /\ loc[t].reads = 0 =>
                  loc[t].station_rows = memo.rows)
    /\ [][memo.full => memo' = memo]_vars

\* a finished plan with a filled stop whose list is no longer what the table
\* holds, next to a thread that finished on another list
C9_Witness ==
    \E t \in Threads, u \in Threads :
        /\ pc[t] = "done" /\ pc[u] = "done"
        /\ loc[t].reads = 1
        /\ loc[t].station_rows # QueryStationRows(db)
        /\ loc[u].station_rows # loc[t].station_rows
        /\ \E k \in 1..Len(loc[t].acc.fuel_stops) : IsFilled(loc[t].acc.fuel_stops[k])

====
